---------------------------- MODULE Spec2Model ----------------------------
(***************************************************************************)
(* A model of src/main.go: a blog API that keeps every blog in one JSON    *)
(* file, data/blogs/<id>.json.  Requests are served concurrently, one      *)
(* goroutine per request (net/http); the goroutines share the directory    *)
(* and the wall clock and nothing else.  A step of the model is one access *)
(* of a handler to the shared state (its clock reads, a file read, a       *)
(* directory listing, the open-and-truncate and the write of os.WriteFile) *)
(* together with the local computation around it.                          *)
(***************************************************************************)
EXTENDS Integers, Sequences, FiniteSets, TLC

(***************************************************************************)
(* Bounds of the model.                                                    *)
(***************************************************************************)
\* The wall clock runs from 1 to MaxClock (0 is time.Time's zero value).
MaxClock == 2
\* Requests served in one behaviour.
MaxRequests == 2
\* time.Now().Unix() of clock value t is UnixBase + t \div TicksPerSecond.
UnixBase == 7
TicksPerSecond == 2

\* The goroutines that serve requests at the same time: net/http starts one
\* for each request, and a request of the model takes the first that is free.
Procs == {1, 2}

VARIABLES
    files,      \* data/blogs: file id |-> the bytes of <id>.json
    clock,      \* the latest reading of time.Now()
    pc,         \* where each request goroutine stands
    req,        \* the request a goroutine serves
    blog,       \* the handler's local Blog value
    resp,       \* the response it sent
    logged,     \* what it wrote to the log (log.Printf)
    served,     \* requests received so far
    persisted   \* history: file id |-> the last Blog written to it in full

vars == <<files, clock, pc, req, blog, resp, logged, served, persisted>>

(***************************************************************************)
(* The Blog struct and its JSON encoding.                                  *)
(***************************************************************************)
\* The zero value of Blog (var blog Blog).
ZeroBlog ==
    [ID |-> 0, Title |-> "", AuthorID |-> 0, Content |-> "", Tags |-> <<>>,
     CreatedTime |-> 0, UpdatedTime |-> 0, IsPublished |-> FALSE,
     ViewCount |-> 0]

\* time.Time.IsZero
IsZero(t) == t = 0

\* A JSON object is a function from its keys to their values.
NoDoc == [k \in {} |-> 0]

\* MarshalKeys with Tags not written (a json:"-" tag).
MarshalKeysDropTags(b) ==
    {"id", "title", "author_id", "content", "created_at", "updated_at",
     "is_published"}
      \cup (IF b.ViewCount = 0 THEN {} ELSE {"view_count"})

\* MarshalKeys with ViewCount not written.
MarshalKeysDropViews(b) ==
    {"id", "title", "author_id", "content", "created_at", "updated_at",
     "is_published"}
      \cup (IF Len(b.Tags) = 0 THEN {} ELSE {"tags"})

\* MarshalKeys with ID not written.
MarshalKeysNoId(b) ==
    {"title", "author_id", "content", "created_at", "updated_at",
     "is_published"}
      \cup (IF Len(b.Tags) = 0 THEN {} ELSE {"tags"})
      \cup (IF b.ViewCount = 0 THEN {} ELSE {"view_count"})

\* The keys json.Marshal writes for b: tags and view_count are omitempty.
MarshalKeys(b) ==
    {"id", "title", "author_id", "content", "created_at", "updated_at",
     "is_published"}
      \cup (IF Len(b.Tags) = 0 THEN {} ELSE {"tags"})
      \cup (IF b.ViewCount = 0 THEN {} ELSE {"view_count"})

\* The value json.Marshal writes under key k.
MarshalField(b, k) ==
    CASE k = "id" -> b.ID
      [] k = "title" -> b.Title
      [] k = "author_id" -> b.AuthorID
      [] k = "content" -> b.Content
      [] k = "tags" -> b.Tags
      [] k = "created_at" -> b.CreatedTime
      [] k = "updated_at" -> b.UpdatedTime
      [] k = "is_published" -> b.IsPublished
      [] k = "view_count" -> b.ViewCount

\* json.MarshalIndent(b, "", "  "): the bytes of a file or of a response.
Marshal(b) ==
    [json |-> TRUE, doc |-> [k \in MarshalKeys(b) |-> MarshalField(b, k)]]

\* Bytes that are no JSON value: an empty (truncated) or a torn file, a
\* malformed request body.
Garbage == [json |-> FALSE, doc |-> NoDoc]

\* Whether json.Unmarshal(bytes, &blog) returns nil.
UnmarshalOK(bytes) == bytes.json

\* The Blog json.Unmarshal(bytes, &blog) leaves in a zero blog: the keys
\* present overwrite the field, the absent ones leave the zero value.
Unmarshal(bytes) ==
    LET d == bytes.doc
        get(k, zero) == IF k \in DOMAIN d THEN d[k] ELSE zero
    IN  [ID |-> get("id", 0), Title |-> get("title", ""),
         AuthorID |-> get("author_id", 0), Content |-> get("content", ""),
         Tags |-> get("tags", <<>>), CreatedTime |-> get("created_at", 0),
         UpdatedTime |-> get("updated_at", 0),
         IsPublished |-> get("is_published", FALSE),
         ViewCount |-> get("view_count", 0)]


(***************************************************************************)
(* Requests: the method, the path after "/api/blogs/" as a sequence of     *)
(* characters, and the body.                                               *)
(***************************************************************************)
Methods == {"GET", "POST", "PUT", "DELETE"}

PathSuffixes == {<<"1">>, <<"0", "2">>, <<"x">>}

\* A request body with title and content, and an "id" key unless id < 0.
PlainDoc(id, title, content) ==
    LET d == [title |-> title, content |-> content]
    IN  IF id < 0 THEN d ELSE d @@ [id |-> id]

\* A request body that sets every field of Blog.
FullDoc(id) ==
    PlainDoc(id, "A", "B") @@
    [author_id |-> 7, tags |-> <<"go">>, created_at |-> 2, updated_at |-> 3,
     is_published |-> TRUE, view_count |-> 5]

BodyDocs ==
    {PlainDoc(id, "A", "B") : id \in {-1, 2}} \cup
    {FullDoc(id) : id \in {-1, 2}} \cup
    {PlainDoc(2, "", "B"), PlainDoc(2, "A", "")}

Bodies == {[json |-> TRUE, doc |-> d] : d \in BodyDocs} \cup {Garbage}

NoRequest == [method |-> ""]
NoResponse == [status |-> 0, error |-> "", data |-> FALSE]

\* sendResponse, as the handlers call it: the status, the error text and
\* whether data carries the handler's blog.
Response(status, error, data) ==
    [status |-> status, error |-> error, data |-> data]

(***************************************************************************)
(* getBlogID: the path must match ^/api/blogs/([0-9]+)$, and the digits     *)
(* are read by strconv.Atoi.                                               *)
(***************************************************************************)
Digits == {"0", "1", "2", "3", "4", "5", "6", "7", "8", "9"}

DigitValue(c) ==
    CASE c = "0" -> 0 [] c = "1" -> 1 [] c = "2" -> 2 [] c = "3" -> 3
      [] c = "4" -> 4 [] c = "5" -> 5 [] c = "6" -> 6 [] c = "7" -> 7
      [] c = "8" -> 8 [] c = "9" -> 9

\* blogIDPath.FindStringSubmatch(r.URL.Path) # nil
blogIDPath(suffix) ==
    Len(suffix) > 0 /\ \A i \in 1..Len(suffix) : suffix[i] \in Digits

\* strconv.Atoi of a digit string (the paths of the model are too short to
\* leave the range of int).
RECURSIVE Atoi(_)
Atoi(ds) ==
    IF Len(ds) = 0 THEN 0
    ELSE 10 * Atoi(SubSeq(ds, 1, Len(ds) - 1)) + DigitValue(ds[Len(ds)])

getBlogID(suffix) ==
    IF blogIDPath(suffix)
    THEN [err |-> "", id |-> Atoi(suffix)]
    ELSE [err |-> "invalid blog ID path", id |-> 0]

(***************************************************************************)
(* The store.                                                              *)
(***************************************************************************)
\* os.ReadFile succeeds on the file of id.
FileExists(id) == id \in DOMAIN files

\* LoadBlog answering a file that does not exist with an empty blog.
LoadBlogMissingOK(id, ioFault) ==
    IF ~FileExists(id)
    THEN [err |-> "", blog |-> ZeroBlog]
    ELSE IF ioFault
    THEN [err |-> "failed to read blog file", blog |-> ZeroBlog]
    ELSE IF ~UnmarshalOK(files[id])
    THEN [err |-> "failed to unmarshal blog", blog |-> ZeroBlog]
    ELSE [err |-> "", blog |-> Unmarshal(files[id])]

\* LoadBlog(id): ioFault is a read error of a file that exists.
LoadBlog(id, ioFault) ==
    IF ~FileExists(id) \/ ioFault
    THEN [err |-> "failed to read blog file", blog |-> ZeroBlog]
    ELSE IF ~UnmarshalOK(files[id])
    THEN [err |-> "failed to unmarshal blog", blog |-> ZeroBlog]
    ELSE [err |-> "", blog |-> Unmarshal(files[id])]

\* Stamp without the IsZero test of line 50.
StampAlways(b, now1, now2) ==
    [b EXCEPT !.CreatedTime = now1, !.UpdatedTime = now2]

\* Blog.Save, lines 50-53: the timestamps; now1 and now2 are the two
\* readings of time.Now().
Stamp(b, now1, now2) ==
    [b EXCEPT !.CreatedTime = IF IsZero(b.CreatedTime) THEN now1 ELSE @,
              !.UpdatedTime = now2]

\* time.Now().Unix()
Unix(t) == UnixBase + (t \div TicksPerSecond)

\* generateNewBlogID counting the identifiers other requests hold and have
\* not yet saved.
generateNewBlogIDReserving(dirFault, now) ==
    IF dirFault THEN Unix(now)
    ELSE Cardinality(DOMAIN files) + 1
           + Cardinality({p \in DOMAIN pc : pc[p] \in {"stamp", "open"}
                                             /\ req[p].method = "POST"})

\* generateNewBlogID returning the clock reading itself, not its seconds.
generateNewBlogIDRaw(dirFault, now) ==
    IF dirFault THEN now ELSE Cardinality(DOMAIN files) + 1

\* generateNewBlogID without the + 1.
generateNewBlogIDLen(dirFault, now) ==
    IF dirFault THEN Unix(now) ELSE Cardinality(DOMAIN files)

\* generateNewBlogID: dirFault is a failure of os.ReadDir, after which
\* time.Now() reads now.
generateNewBlogID(dirFault, now) ==
    IF dirFault THEN Unix(now) ELSE Cardinality(DOMAIN files) + 1

\* The directory after the file of id is given the bytes.
WithFile(id, bytes) == (id :> bytes) @@ files

(***************************************************************************)
(* The initial state: init() has made the directory, no request is served. *)
(***************************************************************************)
Init ==
    /\ files = [k \in {} |-> Garbage]
    /\ clock = 1
    /\ pc = [p \in Procs |-> "idle"]
    /\ req = [p \in Procs |-> NoRequest]
    /\ blog = [p \in Procs |-> ZeroBlog]
    /\ resp = [p \in Procs |-> NoResponse]
    /\ logged = [p \in Procs |-> {}]
    /\ served = 0
    /\ persisted = [k \in {} |-> ZeroBlog]

\* What a call of time.Now() can return: the clock does not run backwards.
Later == clock..MaxClock

\* The lines the handlers log: generateNewBlogID when os.ReadDir fails,
\* getBlogHandler when Save fails.
ReadDirFailed == "Failed to read blog directory"
SaveFailed == "Failed to update view count"

\* A goroutine is in a handler.
Busy(p) == pc[p] \notin {"idle", "done"}

\* p is the goroutine that serves the next request: the first that is free.
Free(p) ==
    /\ ~Busy(p)
    /\ \A q \in Procs : q < p => Busy(q)
    /\ served < MaxRequests

\* The handler of p returns after sendResponse.
Reply(p, status, error, data) ==
    /\ resp' = [resp EXCEPT ![p] = Response(status, error, data)]
    /\ pc' = [pc EXCEPT ![p] = "done"]

\* f without what the goroutines that have returned left in it: the model
\* keeps the reply of a request until the next request arrives.
Fresh(f, zero) == [q \in Procs |-> IF Busy(q) THEN f[q] ELSE zero]

\* Goroutine p serves a request up to its first access to the store or
\* to its reply: it goes to label with blog b, having sent the response r.
Enter(p, method, label, b, r) ==
    /\ pc' = [Fresh(pc, "idle") EXCEPT ![p] = label]
    /\ req' = [Fresh(req, NoRequest) EXCEPT ![p] = [method |-> method]]
    /\ blog' = [Fresh(blog, ZeroBlog) EXCEPT ![p] = b]
    /\ resp' = [Fresh(resp, NoResponse) EXCEPT ![p] = r]
    /\ logged' = [Fresh(logged, {}) EXCEPT ![p] = {}]
    /\ served' = served + 1
    /\ UNCHANGED <<files, clock, persisted>>

(***************************************************************************)
(* main's handler, default case: neither GET, POST nor PUT.                *)
(***************************************************************************)
MethodNotAllowed(p, method, path) ==
    /\ Free(p)
    /\ method \notin {"GET", "POST", "PUT"}
    /\ Enter(p, method, "done", ZeroBlog,
             Response(405, "Method not allowed", FALSE))

(***************************************************************************)
(* getBlogHandler, lines 124-128: the identifier of the path.              *)
(***************************************************************************)
GetBlogID(p, path) ==
    /\ Free(p)
    /\ LET r == getBlogID(path)
       IN  IF r.err # ""
           THEN Enter(p, "GET", "done", ZeroBlog, Response(400, r.err, FALSE))
           ELSE Enter(p, "GET", "load", [ZeroBlog EXCEPT !.ID = r.id],
                      NoResponse)

\* GetLoad with a LoadBlog that opens the file with O_CREATE: a file that
\* does not exist is left empty.
GetLoadCreating(p) ==
    /\ pc[p] = "load"
    /\ \E ioFault \in BOOLEAN :
         LET r == LoadBlog(blog[p].ID, ioFault)
         IN  IF r.err # ""
             THEN /\ Reply(p, 404, "Blog not found", FALSE)
                  /\ UNCHANGED blog
             ELSE /\ blog' = [blog EXCEPT
                                ![p] = [r.blog EXCEPT !.ViewCount = @ + 1]]
                  /\ pc' = [pc EXCEPT ![p] = "stamp"]
                  /\ UNCHANGED resp
    /\ files' = IF FileExists(blog[p].ID) THEN files
                ELSE WithFile(blog[p].ID, Garbage)
    /\ UNCHANGED <<clock, req, logged, served, persisted>>

(***************************************************************************)
(* getBlogHandler, lines 130-137: LoadBlog, then blog.ViewCount++.         *)
(***************************************************************************)
GetLoad(p) ==
    /\ pc[p] = "load"
    /\ \E ioFault \in BOOLEAN :
         LET r == LoadBlog(blog[p].ID, ioFault)
         IN  IF r.err # ""
             THEN /\ Reply(p, 404, "Blog not found", FALSE)
                  /\ UNCHANGED blog
             ELSE /\ blog' = [blog EXCEPT
                                ![p] = [r.blog EXCEPT !.ViewCount = @ + 1]]
                  /\ pc' = [pc EXCEPT ![p] = "stamp"]
                  /\ UNCHANGED resp
    /\ UNCHANGED <<files, clock, req, logged, served, persisted>>

\* SaveParse without the check of lines 179-182 (the identifier of a PUT).
SaveParseAnyID(p, method, path, body) ==
    /\ Free(p)
    /\ method \in {"POST", "PUT"}
    /\ LET b == Unmarshal(body)
           r == getBlogID(path)
           reject(error) ==
               Enter(p, method, "done", ZeroBlog, Response(400, error, FALSE))
           go(label) == Enter(p, method, label, b, NoResponse)
       IN  IF ~UnmarshalOK(body) THEN reject("Invalid JSON format")
           ELSE IF b.Title = "" THEN reject("Title is required")
           ELSE IF b.Content = "" THEN reject("Content is required")
           ELSE IF method = "PUT"
           THEN IF r.err # "" THEN reject(r.err)
                ELSE go("stamp")
           ELSE go("alloc")

\* SaveParse without the checks of lines 162-170 (title, content).
SaveParseUnchecked(p, method, path, body) ==
    /\ Free(p)
    /\ method \in {"POST", "PUT"}
    /\ LET b == Unmarshal(body)
           r == getBlogID(path)
           reject(error) ==
               Enter(p, method, "done", ZeroBlog, Response(400, error, FALSE))
           go(label) == Enter(p, method, label, b, NoResponse)
       IN  IF ~UnmarshalOK(body) THEN reject("Invalid JSON format")
           ELSE IF method = "PUT"
           THEN IF r.err # "" THEN reject(r.err)
                ELSE IF b.ID # r.id THEN reject("Blog ID mismatch")
                ELSE go("stamp")
           ELSE go("alloc")

(***************************************************************************)
(* saveBlogHandler, lines 148-186, up to the access to the store: the body *)
(* is read and checked; a PUT must name the identifier of its path.        *)
(***************************************************************************)
SaveParse(p, method, path, body) ==
    /\ Free(p)
    /\ method \in {"POST", "PUT"}
    /\ LET b == Unmarshal(body)
           r == getBlogID(path)
           reject(error) ==
               Enter(p, method, "done", ZeroBlog, Response(400, error, FALSE))
           go(label) == Enter(p, method, label, b, NoResponse)
       IN  IF ~UnmarshalOK(body) THEN reject("Invalid JSON format")
           ELSE IF b.Title = "" THEN reject("Title is required")
           ELSE IF b.Content = "" THEN reject("Content is required")
           ELSE IF method = "PUT"
           THEN IF r.err # "" THEN reject(r.err)
                ELSE IF b.ID # r.id THEN reject("Blog ID mismatch")
                ELSE go("stamp")
           ELSE go("alloc")

\* Allocate keeping an identifier that the body of the POST carries.
AllocateIfZero(p) ==
    /\ pc[p] = "alloc"
    /\ \E dirFault \in BOOLEAN :
         \E now \in IF dirFault THEN Later ELSE {clock} :
           /\ blog' = [blog EXCEPT
                          ![p].ID = IF @ # 0 THEN @
                                    ELSE generateNewBlogID(dirFault, now)]
           /\ logged' = IF dirFault
                         THEN [logged EXCEPT ![p] = @ \cup {ReadDirFailed}]
                         ELSE logged
           /\ clock' = now
    /\ pc' = [pc EXCEPT ![p] = "stamp"]
    /\ UNCHANGED <<files, req, resp, served, persisted>>

(***************************************************************************)
(* saveBlogHandler, line 185: blog.ID = generateNewBlogID().               *)
(***************************************************************************)
Allocate(p) ==
    /\ pc[p] = "alloc"
    /\ \E dirFault \in BOOLEAN :
         \E now \in IF dirFault THEN Later ELSE {clock} :
           /\ blog' = [blog EXCEPT ![p].ID = generateNewBlogID(dirFault, now)]
           /\ logged' = IF dirFault
                         THEN [logged EXCEPT ![p] = @ \cup {ReadDirFailed}]
                         ELSE logged
           /\ clock' = now
    /\ pc' = [pc EXCEPT ![p] = "stamp"]
    /\ UNCHANGED <<files, req, resp, served, persisted>>

(***************************************************************************)
(* Blog.Save, lines 50-59: the timestamps.  time.Now() is called for the   *)
(* created-at only when that is zero, and again for the updated-at.        *)
(***************************************************************************)
SaveStamp(p) ==
    /\ pc[p] = "stamp"
    /\ \E now1 \in IF IsZero(blog[p].CreatedTime) THEN Later ELSE {clock} :
         \E now2 \in now1..MaxClock :
           /\ blog' = [blog EXCEPT ![p] = Stamp(@, now1, now2)]
           /\ clock' = now2
    /\ pc' = [pc EXCEPT ![p] = "open"]
    /\ UNCHANGED <<files, req, resp, logged, served, persisted>>

\* AfterSave with getBlogHandler answering 500 when Save fails, as
\* saveBlogHandler does.
AfterSaveStrict(p, failed) ==
    /\ IF failed THEN Reply(p, 500, "Failed to save blog", FALSE)
       ELSE Reply(p, 200, "", TRUE)
    /\ UNCHANGED logged

\* What the handler does when Save returns: getBlogHandler logs an error
\* and answers with the blog; saveBlogHandler answers 500 on an error.
AfterSave(p, failed) ==
    IF req[p].method = "GET"
    THEN /\ Reply(p, 200, "", TRUE)
         /\ logged' = IF failed
                       THEN [logged EXCEPT ![p] = @ \cup {SaveFailed}]
                       ELSE logged
    ELSE /\ IF failed THEN Reply(p, 500, "Failed to save blog", FALSE)
            ELSE Reply(p, 200, "", TRUE)
         /\ UNCHANGED logged

(***************************************************************************)
(* Blog.Save, line 65, os.WriteFile: the file is opened with O_CREATE and  *)
(* O_TRUNC, which leaves it empty, ...                                     *)
(***************************************************************************)
SaveOpen(p) ==
    /\ pc[p] = "open"
    /\ \E ioFault \in BOOLEAN :
         IF ioFault
         THEN /\ AfterSave(p, TRUE)
              /\ UNCHANGED files
         ELSE /\ files' = WithFile(blog[p].ID, Garbage)
              /\ pc' = [pc EXCEPT ![p] = "write"]
              /\ UNCHANGED <<resp, logged>>
    /\ UNCHANGED <<clock, req, blog, served, persisted>>

\* The bytes in the file after data is written at offset 0 of a file that
\* holds old: what is left of a longer old follows data.
Written(old, data, longer) ==
    IF old.json /\ old # data /\ longer THEN Garbage ELSE data

(***************************************************************************)
(* ... and the bytes are written from its start.  A write that fails       *)
(* leaves the file as it is.                                               *)
(***************************************************************************)
SaveWrite(p) ==
    /\ pc[p] = "write"
    /\ \E ioFault \in BOOLEAN, longer \in BOOLEAN :
         IF ioFault
         THEN /\ AfterSave(p, TRUE)
              /\ UNCHANGED <<files, persisted>>
         ELSE /\ files' = WithFile(blog[p].ID,
                             Written(files[blog[p].ID], Marshal(blog[p]), longer))
              /\ persisted' = IF UnmarshalOK(files'[blog[p].ID])
                              THEN (blog[p].ID :> Unmarshal(files'[blog[p].ID]))
                                     @@ persisted
                              ELSE persisted
              /\ AfterSave(p, FALSE)
    /\ UNCHANGED <<clock, req, blog, served>>

Next ==
    \/ \E p \in Procs, m \in Methods, path \in PathSuffixes :
         MethodNotAllowed(p, m, path)
    \/ \E p \in Procs, path \in PathSuffixes : GetBlogID(p, path)
    \/ \E p \in Procs : GetLoad(p)
    \/ \E p \in Procs, m \in Methods, path \in PathSuffixes, body \in Bodies :
         SaveParse(p, m, path, body)
    \/ \E p \in Procs : Allocate(p)
    \/ \E p \in Procs : SaveStamp(p)
    \/ \E p \in Procs : SaveOpen(p)
    \/ \E p \in Procs : SaveWrite(p)

Spec == Init /\ [][Next]_vars

(***************************************************************************)
(* The requests served one at a time: a request is received only when no   *)
(* other is being served.                                                  *)
(***************************************************************************)
Alone == \A p \in Procs : ~Busy(p)

SeqNext ==
    \/ Alone /\ \E p \in Procs, m \in Methods, path \in PathSuffixes :
                   MethodNotAllowed(p, m, path)
    \/ Alone /\ \E p \in Procs, path \in PathSuffixes : GetBlogID(p, path)
    \/ \E p \in Procs : GetLoad(p)
    \/ Alone /\ \E p \in Procs, m \in Methods, path \in PathSuffixes,
                     body \in Bodies : SaveParse(p, m, path, body)
    \/ \E p \in Procs : Allocate(p)
    \/ \E p \in Procs : SaveStamp(p)
    \/ \E p \in Procs : SaveOpen(p)
    \/ \E p \in Procs : SaveWrite(p)

SeqSpec == Init /\ [][SeqNext]_vars


(***************************************************************************)
(* The server started on a directory that an earlier run has left with two *)
(* blogs, 1.json and 2.json, as two POSTs write them (init() keeps what    *)
(* the directory holds).                                                   *)
(***************************************************************************)
LeftBlog(id) ==
    Stamp([Unmarshal([json |-> TRUE, doc |-> PlainDoc(-1, "A", "B")])
             EXCEPT !.ID = id], 1, 1)

RestartInit ==
    /\ files = [k \in {1, 2} |-> Marshal(LeftBlog(k))]
    /\ persisted = [k \in {1, 2} |-> LeftBlog(k)]
    /\ clock = 1
    /\ pc = [p \in Procs |-> "idle"]
    /\ req = [p \in Procs |-> NoRequest]
    /\ blog = [p \in Procs |-> ZeroBlog]
    /\ resp = [p \in Procs |-> NoResponse]
    /\ logged = [p \in Procs |-> {}]
    /\ served = 0

RestartSpec == RestartInit /\ [][Next]_vars

\* The same directory, the requests served one at a time.
SeqRestartSpec == RestartInit /\ [][SeqNext]_vars

(***************************************************************************)
(* The requests served one at a time on a directory that starts empty and  *)
(* gets its records from POSTs only: a PUT is accepted only for an         *)
(* identifier whose file holds a record, and os.ReadDir does not fail.     *)
(***************************************************************************)
CreateNext ==
    \/ Alone /\ \E p \in Procs, m \in Methods, path \in PathSuffixes :
                   MethodNotAllowed(p, m, path)
    \/ Alone /\ \E p \in Procs, path \in PathSuffixes : GetBlogID(p, path)
    \/ \E p \in Procs : GetLoad(p)
    \/ Alone /\ \E p \in Procs, m \in Methods, path \in PathSuffixes,
                     body \in Bodies :
                   /\ SaveParse(p, m, path, body)
                   /\ m = "PUT" /\ pc'[p] = "stamp"
                        => (blog'[p].ID \in DOMAIN files
                              /\ UnmarshalOK(files[blog'[p].ID]))
    \/ \E p \in Procs : Allocate(p) /\ ReadDirFailed \notin logged'[p]
    \/ \E p \in Procs : SaveStamp(p)
    \/ \E p \in Procs : SaveOpen(p)
    \/ \E p \in Procs : SaveWrite(p)

CreateSpec == Init /\ [][CreateNext]_vars

(***************************************************************************)
(* What the claims speak of.                                               *)
(***************************************************************************)
\* The file of k holds a whole record: LoadBlog(k) succeeds.
HoldsRecord(k) == k \in DOMAIN files /\ UnmarshalOK(files[k])

\* The record LoadBlog(k) returns.
Stored(k) == Unmarshal(files[k])

\* The step in which Save of p returns nil: os.WriteFile has written, and
\* the handler neither logs the failure (GET) nor answers 500 (POST, PUT).
SaveReturnsNil(p) ==
    /\ pc[p] = "write" /\ pc'[p] = "done"
    /\ SaveFailed \notin logged'[p]
    /\ resp'[p].status = 200

\* Two blogs agree in every field but the timestamps.
SameContent(a, b) ==
    /\ a.ID = b.ID /\ a.Title = b.Title /\ a.AuthorID = b.AuthorID
    /\ a.Content = b.Content /\ a.Tags = b.Tags
    /\ a.IsPublished = b.IsPublished /\ a.ViewCount = b.ViewCount

(***************************************************************************)
(* C1: when Save of a valid blog succeeds, LoadBlog of its identifier,     *)
(* called next, returns a blog equal to the saved one in identifier,       *)
(* title, author, content, tags, published flag and view count, with both  *)
(* timestamps set.  (Requests served one at a time.)                       *)
(***************************************************************************)
C1_PutThenGet ==
    [][\A p \in Procs :
         SaveReturnsNil(p) =>
           LET r == LoadBlog(blog[p].ID, FALSE)'
           IN  /\ r.err = ""
               /\ SameContent(r.blog, blog[p])
               /\ ~IsZero(r.blog.CreatedTime)
               /\ ~IsZero(r.blog.UpdatedTime)]_vars

\* The first request ever, a PUT that sets every field, has been saved to
\* a file that did not exist, and LoadBlog returns it.
C1_Witness ==
    \E p \in Procs :
      /\ served = 1 /\ pc[p] = "done" /\ req[p].method = "PUT"
      /\ resp[p].status = 200
      /\ blog[p].Tags = <<"go">> /\ blog[p].ViewCount = 5
      /\ LoadBlog(blog[p].ID, FALSE).blog = blog[p]

(***************************************************************************)
(* C2: once a record of k is stored, its created-at never changes: every   *)
(* record written to the file of k carries the created-at of the record    *)
(* written there before.                                                   *)
(***************************************************************************)
C2_CreatedAtNeverChanges ==
    [][\A k \in DOMAIN persisted :
         HoldsRecord(k)' =>
           Stored(k)'.CreatedTime = persisted[k].CreatedTime]_vars

(***************************************************************************)
(* C3: a stored view count changes only by a GET of that identifier, and   *)
(* then by exactly +1.                                                     *)
(***************************************************************************)
C3_ViewCountOnlyByGet ==
    [][\A k \in DOMAIN persisted :
         HoldsRecord(k)' /\ files'[k] # files[k] =>
           \/ Stored(k)'.ViewCount = persisted[k].ViewCount
           \/ /\ Stored(k)'.ViewCount = persisted[k].ViewCount + 1
              /\ \E p \in Procs :
                   /\ pc[p] = "write" /\ req[p].method = "GET"
                   /\ blog[p].ID = k]_vars

(***************************************************************************)
(* C4: the identifier generateNewBlogID returns (the directory being       *)
(* readable) is fresh: no stored record has that identifier.              *)
(***************************************************************************)
C4_AllocateIsFresh ==
    [][\A p \in Procs :
         pc[p] = "alloc" /\ pc'[p] = "stamp" /\ ReadDirFailed \notin logged'[p]
           => ~HoldsRecord(blog'[p].ID)]_vars

(***************************************************************************)
(* C5: a file <k>.json that holds a record holds one whose ID is k, and    *)
(* LoadBlog(k), when it succeeds, returns a blog whose ID is k.            *)
(***************************************************************************)
C5_KeyIsIdentifier ==
    /\ [](\A k \in DOMAIN files : HoldsRecord(k) => Stored(k).ID = k)
    /\ [][\A p \in Procs :
            pc[p] = "load" /\ pc'[p] = "stamp" => blog'[p].ID = blog[p].ID]_vars

\* Two files hold records, and a GET has loaded one of them.
C5_Witness ==
    /\ Cardinality({k \in DOMAIN files : HoldsRecord(k)}) >= 2
    /\ \E p \in Procs :
         /\ req[p].method = "GET" /\ pc[p] = "stamp"
         /\ HoldsRecord(blog[p].ID)

(***************************************************************************)
(* C6: a GET never finds the file of a stored blog empty or cut short      *)
(* while a Save to that file is under way: whenever a GET is about to read *)
(* the file of k, which has held a record, and a Save has opened it, the   *)
(* file holds a whole record.                                              *)
(***************************************************************************)
C6_NoPartialVisible ==
    \A p \in Procs, q \in Procs :
      /\ pc[p] = "load" /\ pc[q] = "write"
      /\ blog[q].ID = blog[p].ID /\ blog[p].ID \in DOMAIN persisted
      => HoldsRecord(blog[p].ID)

(***************************************************************************)
(* C7: a POST that calls generateNewBlogID while another POST holds an     *)
(* identifier it has not saved yet, counted from the same directory,       *)
(* receives the same identifier; and when the second of two such POSTs     *)
(* saves over the record of the first, it answers 200 and no file is       *)
(* added: its record replaces the other.                                   *)
(***************************************************************************)
C7_ConcurrentCreatesCollide ==
    [][\A p \in Procs, q \in Procs :
         /\ (/\ p # q
             /\ pc[q] = "alloc" /\ pc'[q] = "stamp"
             /\ ReadDirFailed \notin logged'[q]
             /\ pc[p] \in {"stamp", "open"} /\ req[p].method = "POST"
             /\ blog[p].ID = Cardinality(DOMAIN files) + 1
             => blog'[q].ID = blog[p].ID)
         /\ (/\ p # q
             /\ SaveReturnsNil(q)
             /\ pc[p] = "done" /\ req[p].method = "POST"
             /\ resp[p].status = 200
             /\ req[q].method = "POST" /\ blog[q].ID = blog[p].ID
             /\ HoldsRecord(blog[p].ID) /\ Stored(blog[p].ID) = blog[p]
             => /\ resp'[q].status = 200
                /\ DOMAIN files' = DOMAIN files
                /\ HoldsRecord(blog[q].ID)' => Stored(blog[q].ID)' = blog[q])]_vars

\* The directory held two blogs; two POSTs of different blogs have both
\* been given 3 and have both answered 200; there are three files, and
\* 3.json holds the blog of one of the two.
C7_Witness ==
    \E p \in Procs, q \in Procs :
      /\ pc[p] = "done" /\ pc[q] = "done"
      /\ req[p].method = "POST" /\ req[q].method = "POST"
      /\ resp[p].status = 200 /\ resp[q].status = 200
      /\ blog[p].ID = 3 /\ blog[q].ID = 3
      /\ blog[p].Tags # blog[q].Tags
      /\ DOMAIN files = {1, 2, 3}
      /\ HoldsRecord(3) /\ Stored(3) = blog[q]

(***************************************************************************)
(* C8: when a GET saves a blog whose view count another GET of the same    *)
(* blog, which loaded the same count, has already saved, the stored view   *)
(* count stays what it is: the second increment is lost.                   *)
(***************************************************************************)
C8_LostIncrement ==
    [][\A p \in Procs, q \in Procs :
         /\ p # q
         /\ pc[p] = "done" /\ req[p].method = "GET" /\ resp[p].status = 200
         /\ req[q].method = "GET" /\ blog[q].ID = blog[p].ID
         /\ blog[q].ViewCount = blog[p].ViewCount
         /\ FileExists(blog[p].ID) /\ files[blog[p].ID] = Marshal(blog[p])
         /\ SaveReturnsNil(q)
         /\ HoldsRecord(blog[q].ID)'
         => /\ Stored(blog[q].ID)'.ViewCount = Stored(blog[q].ID).ViewCount
            /\ Stored(blog[q].ID)'.ViewCount = blog[q].ViewCount]_vars

\* Of a blog that had no views, two GETs have both answered 200 with view
\* count 1, both have saved, and the stored view count is 1; no other
\* request was served.
C8_Witness ==
    \E p \in Procs, q \in Procs :
      /\ p # q /\ served = 2
      /\ pc[p] = "done" /\ pc[q] = "done"
      /\ req[p].method = "GET" /\ req[q].method = "GET"
      /\ resp[p].status = 200 /\ resp[q].status = 200
      /\ logged[p] = {} /\ logged[q] = {}
      /\ blog[p].ID = blog[q].ID
      /\ blog[p].ViewCount = 1 /\ blog[q].ViewCount = 1
      /\ HoldsRecord(blog[p].ID) /\ Stored(blog[p].ID).ViewCount = 1

(***************************************************************************)
(* C9: the updated-at of every record written is not earlier than the      *)
(* updated-at of the record written to that file before, and not earlier   *)
(* than its own created-at.                                                *)
(***************************************************************************)
C9_UpdatedAtMonotone ==
    [][\A k \in DOMAIN files' :
         HoldsRecord(k)' /\ (k \notin DOMAIN files \/ files'[k] # files[k]) =>
           /\ Stored(k)'.UpdatedTime >= Stored(k)'.CreatedTime
           /\ k \in DOMAIN persisted =>
                Stored(k)'.UpdatedTime >= persisted[k].UpdatedTime]_vars

C11_EmptyFieldRejected ==
    [][\A p \in Procs :
         ~Busy(p) /\ served' # served /\ req'[p].method \in {"POST", "PUT"} =>
           \A path \in PathSuffixes, body \in Bodies :
             /\ UnmarshalOK(body)
             /\ Unmarshal(body).Title = "" \/ Unmarshal(body).Content = ""
             /\ SaveParse(p, req'[p].method, path, body)
             => /\ pc'[p] = "done" /\ resp'[p].status = 400
                /\ resp'[p].error \in
                     {"Title is required", "Content is required"}
                /\ files' = files /\ persisted' = persisted
                /\ clock' = clock]_vars

\* A PUT without a title has been answered 400 while the directory holds a
\* file.
C11_Witness ==
    \E p \in Procs :
      /\ pc[p] = "done" /\ req[p].method = "PUT"
      /\ resp[p] = Response(400, "Title is required", FALSE)
      /\ DOMAIN files # {}

(***************************************************************************)
(* C12: a GET of an identifier that has no file is answered 404 without a  *)
(* blog, and the step creates no file and changes none.                    *)
(***************************************************************************)
C12_GetMissingNotFound ==
    [][\A p \in Procs :
         pc[p] = "load" /\ pc'[p] # "load" /\ ~FileExists(blog[p].ID)
           => /\ pc'[p] = "done"
              /\ resp'[p] = Response(404, "Blog not found", FALSE)
              /\ files' = files /\ persisted' = persisted]_vars

\* A GET of an identifier without a file has been answered 404, and the
\* identifier still has no file, while another has.
C12_Witness ==
    \E p \in Procs :
      /\ pc[p] = "done" /\ req[p].method = "GET" /\ resp[p].status = 404
      /\ ~FileExists(blog[p].ID)
      /\ DOMAIN files # {}

(***************************************************************************)
(* C13: a GET is answered 404 only when the identifier has no file; when   *)
(* the file exists and cannot be read or holds no record, the answer is a  *)
(* server error (500).                                                     *)
(***************************************************************************)
C13_NotFoundOnlyWhenMissing ==
    [][\A p \in Procs :
         pc[p] = "load" /\ pc'[p] = "done"
           => IF FileExists(blog[p].ID)
              THEN resp'[p].status = 500
              ELSE resp'[p].status = 404]_vars

(***************************************************************************)
(* C14: a GET that has loaded a blog answers 200 with the blog whose view  *)
(* count is the loaded one plus 1, also when its Save fails; the failure   *)
(* is logged.                                                              *)
(***************************************************************************)
C14_GetSurvivesSaveFailure ==
    [][\A p \in Procs :
         req[p].method = "GET" =>
           /\ pc[p] = "load" /\ pc'[p] = "stamp"
                => blog'[p].ViewCount = Stored(blog[p].ID).ViewCount + 1
           /\ pc[p] \in {"stamp", "open", "write"}
                => blog'[p].ViewCount = blog[p].ViewCount
           /\ pc[p] \in {"open", "write"} /\ pc'[p] = "done"
                => /\ resp'[p] = Response(200, "", TRUE)
                   /\ pc[p] = "open" => SaveFailed \in logged'[p]]_vars

\* A GET of a blog that had no views has answered 200 with view count 1
\* and has logged that Save failed; the stored view count is still 0.
C14_Witness ==
    \E p \in Procs :
      /\ pc[p] = "done" /\ req[p].method = "GET"
      /\ resp[p] = Response(200, "", TRUE)
      /\ SaveFailed \in logged[p]
      /\ blog[p].ViewCount = 1
      /\ HoldsRecord(blog[p].ID) /\ Stored(blog[p].ID).ViewCount = 0

(***************************************************************************)
(* C15: with the requests served one at a time, a GET of k whose Save      *)
(* succeeds leaves in the file of k the record that was there with the     *)
(* view count one higher and an updated-at that is not earlier: ID, title, *)
(* author, content, tags, published flag and created-at are the same; and  *)
(* no step of the GET changes the file of another identifier.              *)
(***************************************************************************)
C15_GetChangesOnlyCountAndUpdated ==
    [][\A p \in Procs :
         req[p].method = "GET" /\ pc'[p] # pc[p] =>
           /\ \A j \in DOMAIN files' :
                j # blog[p].ID => j \in DOMAIN files /\ files'[j] = files[j]
           /\ SaveReturnsNil(p) =>
                LET k == blog[p].ID
                    old == persisted[k]
                    new == Stored(k)'
                IN  /\ HoldsRecord(k)'
                    /\ new = [old EXCEPT !.ViewCount = @ + 1,
                                         !.UpdatedTime = new.UpdatedTime]
                    /\ new.UpdatedTime >= old.UpdatedTime]_vars

\* The blog 1 was stored with created-at 1 and no views; the second of two
\* GETs of it, the only requests served, has answered; the stored view
\* count is 2, and the created-at is 1 though the clock has moved.
C15_Witness ==
    \E p \in Procs :
      /\ served = 2 /\ pc[p] = "done" /\ req[p].method = "GET"
      /\ resp[p] = Response(200, "", TRUE) /\ logged[p] = {}
      /\ blog[p].ID = 1 /\ blog[p].ViewCount = 2
      /\ HoldsRecord(1) /\ Stored(1).ViewCount = 2
      /\ Stored(1).CreatedTime = 1 /\ Stored(1).UpdatedTime = 2
      /\ SameContent(Stored(1), [LeftBlog(1) EXCEPT !.ViewCount = 2])

(***************************************************************************)
(* C16: a PUT whose body carries another identifier than its path is       *)
(* answered 400 in the step that receives it and changes no file; and a    *)
(* PUT that is accepted holds the identifier of its path and changes, in   *)
(* every step it takes, no file but that of this identifier.               *)
(***************************************************************************)
C16_PutWritesOnlyPathID ==
    [][/\ \A p \in Procs :
            ~Busy(p) /\ served' # served /\ req'[p].method = "PUT" =>
              \A path \in PathSuffixes, body \in Bodies :
                LET b == Unmarshal(body)
                    r == getBlogID(path)
                IN  /\ UnmarshalOK(body) /\ SaveParse(p, "PUT", path, body)
                    => IF r.err = "" /\ b.ID = r.id
                       THEN pc'[p] = "done" \/ blog'[p].ID = r.id
                       ELSE /\ pc'[p] = "done" /\ resp'[p].status = 400
                            /\ b.Title # "" /\ b.Content # "" /\ r.err = ""
                                 => resp'[p].error = "Blog ID mismatch"
                            /\ files' = files /\ persisted' = persisted
       /\ \A p \in Procs :
            req[p].method = "PUT" /\ Busy(p) /\ pc'[p] # pc[p] =>
              /\ blog'[p].ID = blog[p].ID
              /\ \A j \in DOMAIN files' :
                   j # blog[p].ID
                     => j \in DOMAIN files /\ files'[j] = files[j]]_vars

\* A PUT has been answered 400 for its identifier while the directory
\* holds a file, the file of an earlier PUT, which has the identifier 2 of
\* its path.
C16_Witness ==
    \E p \in Procs :
      /\ pc[p] = "done" /\ req[p].method = "PUT"
      /\ resp[p] = Response(400, "Blog ID mismatch", FALSE)
      /\ DOMAIN files = {2} /\ HoldsRecord(2)

(***************************************************************************)
(* C17: LoadBlog only reads: the step in which a GET calls it changes no   *)
(* file, and LoadBlog of the same identifier called again right after it   *)
(* returns the same; the blog the handler then holds is the stored one     *)
(* with the view count one higher, while the stored view count is as it    *)
(* was.                                                                    *)
(***************************************************************************)
C17_LoadBlogReadOnly ==
    [][\A p \in Procs :
         pc[p] = "load" /\ pc'[p] # "load" =>
           /\ files' = files /\ persisted' = persisted
           /\ LoadBlog(blog[p].ID, FALSE)' = LoadBlog(blog[p].ID, FALSE)
           /\ pc'[p] = "stamp" =>
                /\ HoldsRecord(blog[p].ID)'
                /\ blog'[p] = [Stored(blog[p].ID)' EXCEPT
                                 !.ViewCount = @ + 1]]_vars

\* A GET has loaded a blog without views and holds it with view count 1;
\* the file still holds view count 0.
C17_Witness ==
    \E p \in Procs :
      /\ pc[p] = "stamp" /\ req[p].method = "GET"
      /\ blog[p].ViewCount = 1
      /\ HoldsRecord(blog[p].ID) /\ Stored(blog[p].ID).ViewCount = 0

(***************************************************************************)
(* C18: when os.ReadDir fails, generateNewBlogID returns time.Now().Unix() *)
(* and no error: the POST sends no reply in that step, goes on to Save     *)
(* with this identifier, and the file its Save opens and writes is the     *)
(* file of this identifier.                                                *)
(***************************************************************************)
C18_AllocateFallsBackToUnixTime ==
    [][\A p \in Procs :
         /\ pc[p] = "alloc" /\ pc'[p] # "alloc"
            /\ ReadDirFailed \in logged'[p]
            => /\ pc'[p] = "stamp" /\ resp'[p] = NoResponse
               /\ blog'[p].ID = Unix(clock')
         /\ req[p].method = "POST" /\ pc[p] \in {"stamp", "open", "write"}
            /\ pc'[p] # pc[p]
            => /\ blog'[p].ID = blog[p].ID
               /\ \A j \in DOMAIN files' :
                    j # blog[p].ID
                      => j \in DOMAIN files /\ files'[j] = files[j]]_vars

\* A POST whose os.ReadDir failed has answered 200 with an identifier that
\* is a time in seconds, and the file of that identifier holds its blog.
C18_Witness ==
    \E p \in Procs :
      /\ pc[p] = "done" /\ req[p].method = "POST"
      /\ ReadDirFailed \in logged[p]
      /\ resp[p] = Response(200, "", TRUE)
      /\ blog[p].ID \in {Unix(t) : t \in 1..MaxClock}
      /\ HoldsRecord(blog[p].ID) /\ Stored(blog[p].ID) = blog[p]

(***************************************************************************)
(* C19: on a directory that starts empty and gets its records from POSTs   *)
(* served one at a time, the identifiers of the stored records are 1..n:   *)
(* whenever no request is being served, the files that hold a record are   *)
(* those of 1 to their number.                                             *)
(***************************************************************************)
C19_CreatedIDsAreOneToN ==
    Alone =>
      LET stored == {k \in DOMAIN files : HoldsRecord(k)}
      IN  stored = 1..Cardinality(stored)

(***************************************************************************)
(* C20: a POST saves under the identifier generateNewBlogID returns,       *)
(* whatever identifier its body carries: a POST that is accepted calls     *)
(* generateNewBlogID before it saves and writes no file until then; the    *)
(* identifier it then holds is the number of files plus 1, or the time in  *)
(* seconds when os.ReadDir failed; and it holds that identifier until it   *)
(* answers.                                                                *)
(***************************************************************************)
C20_PostIgnoresBodyID ==
    [][\A p \in Procs :
         /\ ~Busy(p) /\ Busy(p)' /\ req'[p].method = "POST"
            => pc'[p] = "alloc" /\ files' = files
         /\ pc[p] = "alloc" /\ pc'[p] # "alloc"
            => /\ pc'[p] = "stamp" /\ files' = files
               /\ blog'[p].ID =
                    IF ReadDirFailed \in logged'[p] THEN Unix(clock')
                    ELSE Cardinality(DOMAIN files) + 1
               /\ blog'[p] = [blog[p] EXCEPT !.ID = blog'[p].ID]
         /\ req[p].method = "POST" /\ pc[p] \in {"stamp", "open", "write"}
            => blog'[p].ID = blog[p].ID]_vars

\* A POST whose body carries the identifier 2 is about to call
\* generateNewBlogID on an empty directory, where it returns 1 (or the
\* time in seconds).
C20_Witness ==
    \E p \in Procs :
      /\ pc[p] = "alloc" /\ req[p].method = "POST"
      /\ blog[p].ID = 2
      /\ DOMAIN files = {}
      /\ 2 \notin {Unix(t) : t \in 1..MaxClock}

=============================================================================
